---- MODULE Spec2Model ----
(***************************************************************************)
(* Model of the Beckhoff ADC sardana controllers.                          *)
(*                                                                         *)
(* The controller modelled first is BeckhoffADCCTController of             *)
(* src/BeckhoffADCController.py (BeckhoffADCCtrlMixin plus the counter/    *)
(* timer subclass): the buffered counter whose ReadOne turns the raw       *)
(* buffer index of the device into averaged exposures.  The three trace    *)
(* (1D) controllers of the repository follow it; the variable ctrl says    *)
(* which of the classes was constructed:                                   *)
(*   "CT"       BeckhoffADCController.py, BeckhoffADCCTController          *)
(*   "OneD"     BeckhoffADCController.py, BeckhoffADCOneDController        *)
(*   "Ads1D"    BeckhoffADCCTController.py, BeckhoffADCOneDController      *)
(*   "Femto1D"  BeckhoffADCOneDController.py, BeckhoffADCOneDController    *)
(*                                                                         *)
(* Vocabulary of the specification against the handlers of the code:       *)
(*   Configure      LoadOne followed by LoadAll                            *)
(*   Start          StartOne for each channel, then StartAll               *)
(*   Poll           StateAll followed by StateOne                          *)
(*   ReadAvailable  BeckhoffADCCTController.ReadOne                        *)
(*   Stop / Abort   StopOne / AbortOne                                     *)
(*   ReadSnapshot   ReadOne of the trace controllers                       *)
(*   AddChannel, RemoveChannel, SetSource, GetSource                       *)
(*                  AddDevice, DeleteDevice, SetAxisExtraPar and           *)
(*                  GetAxisExtraPar of ads_symbol_array                    *)
(*   consumed_windows  _axes[axis]["samples_returned"]                     *)
(*   window_size    _npts_average,  total_raw_points  _npts                *)
(*                                                                         *)
(* Time is counted in ticks of 1/(ExpDen*acq_rate) seconds, so that        *)
(* 1/acq_rate is ExpDen ticks and exposure*acq_rate is the rational        *)
(* exposure/ExpDen.  Python attributes and dictionary keys that were never *)
(* assigned are modelled as such: a read of one raises.                    *)
(***************************************************************************)
EXTENDS Integers, Sequences, FiniteSets, TLC

\* ------------------------------------------------------------------ bounds
MaxIndex == 3
MaxSample == 1
MaxReps == 2
MaxExposure == 4
ExpDen == 2
MaxRawCode == 4

\* ------------------------------------------------------- program constants
MAXLENGTH == 100000

VARIABLES
    axes,          \* self._axes: axis -> dict
    npts_average,  \* self._npts_average (Unset until LoadOne)
    npts,          \* self._npts (Unset until LoadOne)
    latency_time,  \* self._latency_time, in ticks
    state,         \* self.state (UnsetAttr until StateAll)
    status,        \* self.status
    devSize,       \* Gateway attribute ADCBufferSize
    devIndex,      \* Gateway attribute ADC1BufferIndex
    devState,      \* Gateway attribute ADC1BufferState
    devData,       \* Gateway data arrays, one per ADS symbol
    last,          \* the handler call that was made last, and its outcome
    hist,          \* per axis: what ReadOne returned since StartOne
    ctrl           \* the controller class that was constructed

vars == <<axes, npts_average, npts, latency_time, state, status,
          devSize, devIndex, devState, devData, last, hist, ctrl>>

ctrlVars == <<axes, npts_average, npts, latency_time, state, status, ctrl>>
devVars == <<devSize, devIndex, devState, devData>>

\* ------------------------------------------------------------- value sets
\* the axes in use, among the MaxDevice = 16 a controller may hold
AxisIds == {1, 2}
Symbols == {"MAIN.ADC1", "MAIN.ADC2"}
Samples == 0..MaxSample
RawCodes == 0..MaxRawCode
Exposures == 1..MaxExposure
RepetitionValues == (1..MaxReps) \cup {MAXLENGTH, MAXLENGTH + 1}
ParNames == {"ADS_Symbol_Array", "other"}

Unset == -1
UnsetAttr == "unset"
NoAxis == 0
None == <<"None">>

\* 1 / self.acq_rate, in ticks
SamplePeriod == ExpDen

\* ---------------------------------------------------------------- helpers
Min(a, b) == IF a < b THEN a ELSE b
Max(a, b) == IF a > b THEN a ELSE b

\* str.lower() on the parameter names in use
Lower(name) == IF name = "ADS_Symbol_Array" THEN "ads_symbol_array" ELSE name

EmptyDict == [k \in {} |-> 0]
DictSet(d, k, v) == [x \in (DOMAIN d) \cup {k} |-> IF x = k THEN v ELSE d[x]]
DictPop(d, k) == [x \in (DOMAIN d) \ {k} |-> d[x]]

RECURSIVE Sum(_)
Sum(s) == IF s = <<>> THEN 0 ELSE Head(s) + Sum(Tail(s))

\* numpy mean of one row: the rational Sum/Len, kept as the pair
Mean(row) == <<Sum(row), Len(row)>>

\* int(x) of the non-negative rational num/den: truncation
IntTrunc(num, den) == num \div den

\* Python round(x) of the non-negative rational num/den: half to even
Round(num, den) ==
    LET q == num \div den
        r == num % den
    IN  IF 2 * r < den THEN q
        ELSE IF 2 * r > den THEN q + 1
        ELSE IF q % 2 = 0 THEN q ELSE q + 1

\* data[n0:n1] for 0 <= n0, n1
PySlice(s, n0, n1) ==
    LET lo == Min(n0, Len(s))
        hi == Min(n1, Len(s))
    IN  IF lo >= hi THEN <<>> ELSE SubSeq(s, lo + 1, hi)

\* a.reshape((-1, w)): the rows of w entries (defined when w divides the size)
Reshape(s, w) == [k \in 1..(Len(s) \div w) |-> SubSeq(s, (k - 1) * w + 1, k * w)]

\* mutant: no averaging, every sample is a value
RowMeansEverySample(s, w) == [k \in 1..Len(s) |-> <<s[k], 1>>]

\* a.reshape((-1, w)).mean(axis=1).tolist()
RowMeans(s, w) == [k \in 1..(Len(s) \div w) |-> Mean(Reshape(s, w)[k])]

\* proxy.read_float_array([[n], [symbol]]): the first n entries of the array
ReadFloatArray(n, symbol) == PySlice(devData[symbol], 0, n)

Result(op, axis, args, outcome, value, writes) ==
    [op |-> op, axis |-> axis, args |-> args, outcome |-> outcome,
     value |-> value, writes |-> writes]

HistNone == [phase |-> "none", got |-> <<>>]
HistArmed == [phase |-> "armed", got |-> <<>>]
HistBroken == [phase |-> "broken", got |-> <<>>]
Broken(h) == IF h.phase \in {"armed", "running"} THEN HistBroken ELSE h

\* ---------------------------------------------------------- the Gateway
\* The Tango device behind self._proxy.  Its reaction to the signal
\* attributes: ADCPrepare and ADCStart empty the buffer (index 0), ADCStart
\* sets the state code to 2 (acquiring), ADCStop ends an acquisition.
\* The ADC value v as it shows in the array of a symbol: the channels of one
\* device sample the same instants, each with its own signal.
SymbolSample(symbol, v) == IF symbol = "MAIN.ADC1" THEN v ELSE 2 * v + 3

ClearedData == [s \in Symbols |-> <<>>]

DevPrepare(size) ==
    /\ devSize' = size
    /\ devIndex' = 0
    /\ devData' = ClearedData
    /\ devState' = 1

DevStart ==
    /\ devIndex' = 0
    /\ devData' = ClearedData
    /\ devState' = 2
    /\ UNCHANGED devSize

DevStop ==
    /\ devState' = IF devState = 2 THEN 3 ELSE devState
    /\ UNCHANGED <<devSize, devIndex, devData>>

\* The ADC writes one more sample into every array and advances its index.
DeviceAdvance ==
    /\ devState = 2
    /\ devIndex < devSize
    /\ devIndex < MaxIndex
    /\ \E v \in Samples :
           devData' = [s \in Symbols |-> Append(devData[s], SymbolSample(s, v))]
    /\ devIndex' = devIndex + 1
    /\ devState' = IF devIndex + 1 = devSize THEN 1 ELSE devState
    /\ hist' = hist
    /\ UNCHANGED <<ctrlVars, devSize, last>>

\* The device resets its buffer in the middle of an acquisition: the index
\* that the next read reports is lower than the one before.
DeviceReset ==
    /\ devIndex > 0
    /\ devIndex' = 0
    /\ devData' = ClearedData
    /\ hist' = [a \in AxisIds |-> Broken(hist[a])]
    /\ UNCHANGED <<ctrlVars, devSize, devState, last>>

\* The device changes its state code by itself (a fault, a recovery).
DeviceState(code) ==
    /\ devState # code
    /\ devState' = code
    /\ UNCHANGED <<ctrlVars, devSize, devIndex, devData, last, hist>>

\* ------------------------------------------------------------- registry
AddDevice(axis) ==
    /\ axes' = DictSet(axes, axis, EmptyDict)
    /\ hist' = [hist EXCEPT ![axis] = HistNone]
    /\ last' = Result("AddDevice", axis, <<>>, "ok", None, <<>>)
    /\ UNCHANGED <<npts_average, npts, latency_time, state, status, ctrl, devVars>>

DeleteDevice(axis) ==
    /\ IF axis \in DOMAIN axes
       THEN /\ axes' = DictPop(axes, axis)
            /\ last' = Result("DeleteDevice", axis, <<>>, "ok", None, <<>>)
       ELSE /\ axes' = axes
            /\ last' = Result("DeleteDevice", axis, <<>>, "KeyError", None, <<>>)
    /\ hist' = [hist EXCEPT ![axis] = HistNone]
    /\ UNCHANGED <<npts_average, npts, latency_time, state, status, ctrl, devVars>>

\* mutant: a channel that is not registered is created by the assignment
SetAxisExtraParCreating(axis, name, value) ==
    /\ IF Lower(name) = "ads_symbol_array"
       THEN /\ axes' = DictSet(axes, axis,
                               DictSet(IF axis \in DOMAIN axes THEN axes[axis] ELSE EmptyDict,
                                       "ads_symbol_array", value))
            /\ hist' = [hist EXCEPT ![axis] = Broken(@)]
            /\ last' = Result("SetAxisExtraPar", axis, <<Lower(name)>>, "ok", None, <<>>)
       ELSE /\ UNCHANGED <<axes, hist>>
            /\ last' = Result("SetAxisExtraPar", axis, <<Lower(name)>>, "ok", None, <<>>)
    /\ UNCHANGED <<npts_average, npts, latency_time, state, status, ctrl, devVars>>

SetAxisExtraPar(axis, name, value) ==
    /\ IF Lower(name) = "ads_symbol_array"
       THEN IF axis \in DOMAIN axes
            THEN /\ axes' = [axes EXCEPT ![axis] = DictSet(@, "ads_symbol_array", value)]
                 /\ hist' = [hist EXCEPT ![axis] = Broken(@)]
                 /\ last' = Result("SetAxisExtraPar", axis, <<Lower(name)>>, "ok", None, <<>>)
            ELSE /\ UNCHANGED <<axes, hist>>
                 /\ last' = Result("SetAxisExtraPar", axis, <<Lower(name)>>, "KeyError", None, <<>>)
       ELSE /\ UNCHANGED <<axes, hist>>
            /\ last' = Result("SetAxisExtraPar", axis, <<Lower(name)>>, "ok", None, <<>>)
    /\ UNCHANGED <<npts_average, npts, latency_time, state, status, ctrl, devVars>>

\* The handlers that only read are operators: what the call returns, or the
\* exception it raises.
Raised(exception) == <<"raise", exception>>
Returned(value) == <<"return", value>>

GetAxisExtraPar(axis, name) ==
    IF Lower(name) = "ads_symbol_array"
    THEN IF axis \in DOMAIN axes /\ "ads_symbol_array" \in DOMAIN axes[axis]
         THEN Returned(axes[axis]["ads_symbol_array"])
         ELSE Raised("KeyError")
    ELSE Returned(None)

\* GetCtrlPar("latency_time")
GetCtrlPar == Returned(latency_time)

\* ---------------------------------------------------------------- state
\* mutant: code 3 is not taken for ready
StateOfWithoutThree(code) ==
    IF code = 1 THEN "On"
    ELSE IF code = 2 THEN "Moving"
    ELSE "Fault"

StateOf(code) ==
    IF code \in {1, 3} THEN "On"
    ELSE IF code = 2 THEN "Moving"
    ELSE "Fault"

StatusOf(code) ==
    IF code \in {1, 3} THEN <<"Detector ready">>
    ELSE IF code = 2 THEN <<"Detector acquiring">>
    ELSE <<"Unxepected state: ", code>>

StateAll ==
    /\ state' = StateOf(devState)
    /\ status' = StatusOf(devState)
    /\ last' = Result("StateAll", NoAxis, <<devState>>, "ok", None, <<>>)
    /\ UNCHANGED <<axes, npts_average, npts, latency_time, ctrl, devVars, hist>>

StateOne(axis) ==
    IF state = UnsetAttr THEN Raised("AttributeError") ELSE Returned(<<state, status>>)

\* -------------------------------------------------------- configuration
MinExposureError == <<"Minimum exposure time is">>
MaxLengthError == <<"Maxmimum number of acquisitions is">>

\* self._npts_average = int(exposure * self.acq_rate)
WindowSize(exposure) == IntTrunc(exposure, ExpDen)

\* self._latency_time = max(1 / self.acq_rate, exposure)
LatencyOf(exposure) == Max(SamplePeriod, exposure)

\* mutant: only an exposure that is not positive is refused
ExposureNotPositive(exposure) == exposure <= 0

\* if exposure < (1 / self.acq_rate)
ExposureTooShort(exposure) == exposure < SamplePeriod

\* mutant: no number of points is too large
TooManyPointsNever(n) == FALSE

\* if npts > self.MAXLENGTH
TooManyPoints(n) == n > MAXLENGTH

\* mutant: the number of points is written to the Gateway before it is
\* checked against MAXLENGTH
LoadOneWritesFirst(axis, exposure, repetitions) ==
    /\ axis \in AxisIds
    /\ IF ExposureTooShort(exposure)
       THEN /\ UNCHANGED <<npts_average, latency_time, npts, devVars>>
            /\ last' = Result("LoadOne", NoAxis, <<exposure, repetitions>>,
                              "ValueError", MinExposureError, <<>>)
       ELSE IF TooManyPoints(WindowSize(exposure) * repetitions)
       THEN /\ npts_average' = WindowSize(exposure)
            /\ latency_time' = LatencyOf(exposure)
            /\ UNCHANGED npts
            /\ devSize' = WindowSize(exposure) * repetitions
            /\ UNCHANGED <<devIndex, devState, devData>>
            /\ last' = Result("LoadOne", NoAxis, <<exposure, repetitions>>,
                              "ValueError", MaxLengthError,
                              <<<<"ADCBufferSize", WindowSize(exposure) * repetitions>>>>)
       ELSE /\ npts_average' = WindowSize(exposure)
            /\ latency_time' = LatencyOf(exposure)
            /\ npts' = WindowSize(exposure) * repetitions
            /\ UNCHANGED devVars
            /\ last' = Result("LoadOne", NoAxis, <<exposure, repetitions>>,
                              "ok", None, <<>>)
    /\ hist' = IF npts_average' # npts_average
               THEN [a \in AxisIds |-> Broken(hist[a])]
               ELSE hist
    /\ UNCHANGED <<axes, state, status, ctrl>>

LoadOne(axis, exposure, repetitions) ==
    /\ axis \in AxisIds
    /\ IF ExposureTooShort(exposure)
       THEN /\ UNCHANGED <<npts_average, latency_time, npts>>
            /\ last' = Result("LoadOne", NoAxis, <<exposure, repetitions>>,
                              "ValueError", MinExposureError, <<>>)
       ELSE IF TooManyPoints(WindowSize(exposure) * repetitions)
       THEN /\ npts_average' = WindowSize(exposure)
            /\ latency_time' = LatencyOf(exposure)
            /\ UNCHANGED npts
            /\ last' = Result("LoadOne", NoAxis, <<exposure, repetitions>>,
                              "ValueError", MaxLengthError, <<>>)
       ELSE /\ npts_average' = WindowSize(exposure)
            /\ latency_time' = LatencyOf(exposure)
            /\ npts' = WindowSize(exposure) * repetitions
            /\ last' = Result("LoadOne", NoAxis, <<exposure, repetitions>>,
                              "ok", None, <<>>)
    /\ hist' = IF npts_average' # npts_average
               THEN [a \in AxisIds |-> Broken(hist[a])]
               ELSE hist
    /\ UNCHANGED <<axes, state, status, ctrl, devVars>>

LoadAll ==
    /\ IF npts = Unset
       THEN /\ UNCHANGED <<devVars, hist>>
            /\ last' = Result("LoadAll", NoAxis, <<>>, "AttributeError", None, <<>>)
       ELSE /\ DevPrepare(npts)
            /\ hist' = [a \in AxisIds |-> Broken(hist[a])]
            /\ last' = Result("LoadAll", NoAxis, <<>>, "ok", None,
                              <<<<"ADCBufferSize", npts>>, <<"ADCPrepare", TRUE>>>>)
    /\ UNCHANGED ctrlVars

\* ---------------------------------------------------------------- start
\* mutant: the count of the acquisition before is kept
StartKeep(old) ==
    IF "samples_returned" \in DOMAIN old THEN old["samples_returned"] ELSE 0

\* self._axes[axis]["samples_returned"] = 0
StartReset(old) == 0

StartOne(axis) ==
    /\ IF axis \in DOMAIN axes
       THEN /\ axes' = [axes EXCEPT ![axis] =
                           DictSet(@, "samples_returned", StartReset(@))]
            /\ hist' = [hist EXCEPT ![axis] = HistArmed]
            /\ last' = Result("StartOne", axis, <<>>, "ok", None, <<>>)
       ELSE /\ UNCHANGED <<axes, hist>>
            /\ last' = Result("StartOne", axis, <<>>, "KeyError", None, <<>>)
    /\ UNCHANGED <<npts_average, npts, latency_time, state, status, ctrl, devVars>>

StartAll ==
    /\ DevStart
    /\ hist' = [a \in AxisIds |->
                   IF hist[a].phase = "armed"
                   THEN [hist[a] EXCEPT !.phase = "running"]
                   ELSE Broken(hist[a])]
    /\ last' = Result("StartAll", NoAxis, <<>>, "ok", None, <<<<"ADCStart", TRUE>>>>)
    /\ UNCHANGED ctrlVars

\* ----------------------------------------------------------------- stop
AbortOne(axis) ==
    /\ DevStop
    /\ last' = Result("AbortOne", axis, <<>>, "ok", None, <<<<"ADCStop", TRUE>>>>)
    /\ UNCHANGED <<ctrlVars, hist>>

\* mutant: the stop forgets the read progress of the channels
StopOneForgetful(axis) ==
    /\ DevStop
    /\ last' = Result("StopOne", axis, <<>>, "ok", None, <<<<"ADCStop", TRUE>>>>)
    /\ axes' = [a \in DOMAIN axes |-> DictPop(axes[a], "samples_returned")]
    /\ UNCHANGED <<npts_average, npts, latency_time, state, status, ctrl, hist>>

StopOne(axis) ==
    /\ DevStop
    /\ last' = Result("StopOne", axis, <<>>, "ok", None, <<<<"ADCStop", TRUE>>>>)
    /\ UNCHANGED <<ctrlVars, hist>>

StopAll ==
    /\ last' = Result("StopAll", NoAxis, <<>>, "ok", None, <<>>)
    /\ UNCHANGED <<ctrlVars, devVars, hist>>

\* ----------------------------------------------------------------- read
\* full_samples = len(data) // self._npts_average
FullSamples(data, w) == Len(data) \div w

\* data[n0:n1].reshape((-1, w)) raises unless w divides the size of the slice
Reshapes(data, samples_returned, full_samples, w) ==
    Len(PySlice(data, samples_returned * w, full_samples * w)) % w = 0

\* mutant: the slice starts at 0, not at n0
AveragedFromStart(data, samples_returned, full_samples, w) ==
    RowMeans(PySlice(data, 0, full_samples * w), w)

\* data[n0:n1].reshape((-1, w)).mean(axis=1).tolist()
Averaged(data, samples_returned, full_samples, w) ==
    RowMeans(PySlice(data, samples_returned * w, full_samples * w), w)

\* mutant: the count is not advanced
AdvancedNot(samples_returned, full_samples) == samples_returned

\* self._axes[axis]["samples_returned"] = full_samples
Advanced(samples_returned, full_samples) == full_samples

\* mutant: the count of full samples is kept once for all the channels
ReadOneShared(axis) ==
    /\ IF \/ axis \notin DOMAIN axes
          \/ "ads_symbol_array" \notin DOMAIN axes[axis]
          \/ "samples_returned" \notin DOMAIN axes[axis]
       THEN /\ UNCHANGED <<axes, hist>>
            /\ last' = Result("ReadOne", axis, <<>>, "KeyError", None, <<>>)
       ELSE IF npts_average = Unset
       THEN /\ UNCHANGED <<axes, hist>>
            /\ last' = Result("ReadOne", axis, <<>>, "AttributeError", None, <<>>)
       ELSE IF npts_average = 0
       THEN /\ UNCHANGED <<axes, hist>>
            /\ last' = Result("ReadOne", axis, <<>>, "ZeroDivisionError", None, <<>>)
       ELSE LET data == ReadFloatArray(devIndex, axes[axis]["ads_symbol_array"])
                samples_returned == axes[axis]["samples_returned"]
                full_samples == FullSamples(data, npts_average)
                values == Averaged(data, samples_returned, full_samples, npts_average)
            IN  IF ~Reshapes(data, samples_returned, full_samples, npts_average)
                THEN /\ UNCHANGED <<axes, hist>>
                     /\ last' = Result("ReadOne", axis, <<devIndex>>, "ValueError", None, <<>>)
                ELSE
                /\ axes' = [a \in DOMAIN axes |->
                               DictSet(axes[a], "samples_returned",
                                       Advanced(samples_returned, full_samples))]
                /\ hist' = [hist EXCEPT ![axis] =
                               IF @.phase = "running"
                               THEN [@ EXCEPT !.got = @ \o values]
                               ELSE Broken(@)]
                /\ last' = Result("ReadOne", axis, <<devIndex>>,
                                  "ok", values, <<>>)
    /\ UNCHANGED <<npts_average, npts, latency_time, state, status, ctrl, devVars>>

ReadOne(axis) ==
    /\ IF \/ axis \notin DOMAIN axes
          \/ "ads_symbol_array" \notin DOMAIN axes[axis]
          \/ "samples_returned" \notin DOMAIN axes[axis]
       THEN /\ UNCHANGED <<axes, hist>>
            /\ last' = Result("ReadOne", axis, <<>>, "KeyError", None, <<>>)
       ELSE IF npts_average = Unset
       THEN /\ UNCHANGED <<axes, hist>>
            /\ last' = Result("ReadOne", axis, <<>>, "AttributeError", None, <<>>)
       ELSE IF npts_average = 0
       THEN /\ UNCHANGED <<axes, hist>>
            /\ last' = Result("ReadOne", axis, <<>>, "ZeroDivisionError", None, <<>>)
       ELSE LET data == ReadFloatArray(devIndex, axes[axis]["ads_symbol_array"])
                samples_returned == axes[axis]["samples_returned"]
                full_samples == FullSamples(data, npts_average)
                values == Averaged(data, samples_returned, full_samples, npts_average)
            IN  IF ~Reshapes(data, samples_returned, full_samples, npts_average)
                THEN /\ UNCHANGED <<axes, hist>>
                     /\ last' = Result("ReadOne", axis, <<devIndex>>, "ValueError", None, <<>>)
                ELSE
                /\ axes' = [axes EXCEPT ![axis] =
                               DictSet(@, "samples_returned",
                                       Advanced(samples_returned, full_samples))]
                /\ hist' = [hist EXCEPT ![axis] =
                               IF @.phase = "running"
                               THEN [@ EXCEPT !.got = @ \o values]
                               ELSE Broken(@)]
                /\ last' = Result("ReadOne", axis, <<devIndex>>,
                                  "ok", values, <<>>)
    /\ UNCHANGED <<npts_average, npts, latency_time, state, status, ctrl, devVars>>

\* --------------------------------------------------------- specification
Init ==
    /\ axes = EmptyDict
    /\ npts_average = Unset
    /\ npts = Unset
    /\ latency_time = SamplePeriod
    /\ state = UnsetAttr
    /\ status = <<UnsetAttr>>
    /\ devSize = 0
    /\ devIndex = 0
    /\ devState = 1
    /\ devData = ClearedData
    /\ last = Result("__init__", NoAxis, <<>>, "ok", None, <<>>)
    /\ hist = [a \in AxisIds |-> HistNone]
    /\ ctrl = "CT"

RegistryStep ==
    \/ \E axis \in AxisIds : AddDevice(axis)
    \/ \E axis \in AxisIds : DeleteDevice(axis)
    \/ \E axis \in AxisIds, name \in ParNames, value \in Symbols :
           SetAxisExtraPar(axis, name, value)

\* LoadOne is called on the timer channel alone; it does not read its axis.
TimerAxis == CHOOSE axis \in AxisIds : TRUE

ConfigStep ==
    \/ \E exposure \in Exposures, repetitions \in RepetitionValues :
           LoadOne(TimerAxis, exposure, repetitions)
    \/ LoadAll

\* Configurations that succeed: exposures of whole samples, at most MaxReps
\* of them.
WholeExposures == {e \in Exposures : e >= SamplePeriod /\ e % ExpDen = 0}

SmallConfigStep ==
    \/ \E exposure \in WholeExposures, repetitions \in 1..MaxReps :
           LoadOne(TimerAxis, exposure, repetitions)
    \/ LoadAll

StartStep ==
    \/ \E axis \in AxisIds : StartOne(axis)
    \/ StartAll

StopStep ==
    \/ \E axis \in AxisIds : AbortOne(axis)
    \/ \E axis \in AxisIds : StopOne(axis)
    \/ StopAll

ReadStep == \E axis \in AxisIds : ReadOne(axis)

PollStep == StateAll

\* The whole controller: every handler, called in any order, and the device.
Next ==
    \/ RegistryStep
    \/ ConfigStep
    \/ StartStep
    \/ StopStep
    \/ ReadStep
    \/ PollStep
    \/ DeviceAdvance
    \/ DeviceReset
    \/ \E code \in RawCodes : DeviceState(code)

Spec == Init /\ [][Next]_vars

\* The acquisition: channels, configuration, start, reads, and the device
\* filling its buffer.  Left out are the handlers that touch neither the
\* channels nor the buffer (StateAll, the stop signal, the state code).
NextAcq ==
    \/ RegistryStep
    \/ SmallConfigStep
    \/ StartStep
    \/ ReadStep
    \/ DeviceAdvance
    \/ DeviceReset

SpecAcq == Init /\ [][NextAcq]_vars

\* The state machine: configuration, start and stop signals, polls, and the
\* device changing its state code.  Left out are the channels, the reads and
\* the samples of the device.
NextConf ==
    \/ ConfigStep
    \/ StartAll
    \/ StopStep
    \/ PollStep
    \/ \E code \in RawCodes : DeviceState(code)

SpecConf == Init /\ [][NextConf]_vars

\* The lifecycle of one channel: the channel, configuration at the edges of
\* what LoadOne accepts, the start and stop signals, polls, and the device
\* changing its state code, and the reads of the one sample that such a
\* configuration acquires.
EdgeExposures == {SamplePeriod - 1, SamplePeriod}
EdgeRepetitions == {1, MAXLENGTH + 1}

ChannelStep ==
    \/ AddDevice(TimerAxis)
    \/ DeleteDevice(TimerAxis)
    \/ \E name \in ParNames, value \in Symbols :
           SetAxisExtraPar(TimerAxis, name, value)

EdgeConfigStep ==
    \/ \E exposure \in EdgeExposures, repetitions \in EdgeRepetitions :
           LoadOne(TimerAxis, exposure, repetitions)
    \/ LoadAll

NextCtl ==
    \/ ChannelStep
    \/ EdgeConfigStep
    \/ StartOne(TimerAxis)
    \/ StartAll
    \/ ReadOne(TimerAxis)
    \/ DeviceAdvance
    \/ StopStep
    \/ PollStep
    \/ \E code \in RawCodes : DeviceState(code)

SpecCtl == Init /\ [][NextCtl]_vars

\* ======================================================= trace controllers
\* ------------- BeckhoffADCController.py, class BeckhoffADCOneDController
\* The software-triggered trace controller ("OneD"): the handlers of
\* BeckhoffADCCtrlMixin above, and a ReadOne of its own.  The call records
\* the reads of the Gateway it made.
OneDInit ==
    /\ axes = EmptyDict
    /\ npts_average = Unset
    /\ npts = Unset
    /\ latency_time = SamplePeriod
    /\ state = UnsetAttr
    /\ status = <<UnsetAttr>>
    /\ devSize = 0
    /\ devIndex = 0
    /\ devState = 1
    /\ devData = ClearedData
    /\ last = Result("__init__", NoAxis, <<>>, "ok", None, <<>>)
    /\ hist = [a \in AxisIds |-> HistNone]
    /\ ctrl = "OneD"

\* mutant: the trace is read in every state
StateIsAny(s) == TRUE

\* if self.state == State.On
StateIsOn(s) == s = "On"

OneDReadOne(axis) ==
    /\ IF axis \notin DOMAIN axes \/ "ads_symbol_array" \notin DOMAIN axes[axis]
       THEN last' = Result("ReadOne", axis, <<>>, "KeyError", None, <<>>)
       ELSE IF state = UnsetAttr
       THEN last' = Result("ReadOne", axis, <<>>, "AttributeError", None, <<>>)
       ELSE IF StateIsOn(state)
       THEN last' = Result("ReadOne", axis, <<"ADC1BufferIndex", "read_float_array">>,
                           "ok", ReadFloatArray(devIndex, axes[axis]["ads_symbol_array"]),
                           <<>>)
       ELSE last' = Result("ReadOne", axis, <<>>, "ok", None, <<>>)
    /\ UNCHANGED <<ctrlVars, devVars, hist>>

OneDNext ==
    \/ ChannelStep
    \/ EdgeConfigStep
    \/ StartAll
    \/ StopStep
    \/ PollStep
    \/ OneDReadOne(TimerAxis)
    \/ DeviceAdvance
    \/ \E code \in RawCodes : DeviceState(code)

SpecOneD == OneDInit /\ [][OneDNext]_vars

\* ---------------------------------------- BeckhoffADCOneDController.py
\* The trace controller of the femto ADC ("Femto1D").  Of the variables it
\* has _axes, _npts, state and status; it has no _npts_average and no
\* _latency_time.  Of the Gateway it uses the start attribute (devState), the
\* target index (devSize) and one data array per channel of a length the
\* device fixes, whose entries are 0 until the device writes them (devIndex
\* counts the entries written).
FEMTO_MAXLENGTH == 10000

\* the lengths of the data arrays a device may declare
ArrayLens == {1, MaxIndex}

\* LoadOne parameter value, in ticks
FemtoValues == Exposures \cup {ExpDen * FEMTO_MAXLENGTH, ExpDen * FEMTO_MAXLENGTH + ExpDen}

ZeroArray(len) == [k \in 1..len |-> 0]

\* (data != 0).sum()
NumValid(data) == Cardinality({k \in 1..Len(data) : data[k] # 0})

FemtoInit ==
    /\ ctrl = "Femto1D"
    /\ axes = EmptyDict
    /\ npts_average = Unset
    /\ npts = 1
    /\ latency_time = Unset
    /\ state = UnsetAttr
    /\ status = <<UnsetAttr>>
    /\ devSize = 0
    /\ devIndex = 0
    /\ devState = 0
    /\ \E len \in ArrayLens : devData = [s \in Symbols |-> ZeroArray(len)]
    /\ last = Result("__init__", NoAxis, <<>>, "ok", None, <<>>)
    /\ hist = [a \in AxisIds |-> HistNone]

FemtoAddDevice(axis) ==
    /\ axes' = DictSet(axes, axis, EmptyDict)
    /\ last' = Result("AddDevice", axis, <<>>, "ok", None, <<>>)
    /\ UNCHANGED <<npts_average, npts, latency_time, state, status, ctrl, devVars, hist>>

FemtoSetAxisExtraPar(axis, name, value) ==
    /\ IF name = "attr_array"
       THEN IF axis \in DOMAIN axes
            THEN /\ axes' = [axes EXCEPT ![axis] = DictSet(@, "attr_array", value)]
                 /\ last' = Result("SetAxisExtraPar", axis, <<name>>, "ok", None, <<>>)
            ELSE /\ UNCHANGED axes
                 /\ last' = Result("SetAxisExtraPar", axis, <<name>>, "KeyError", None, <<>>)
       ELSE /\ UNCHANGED axes
            /\ last' = Result("SetAxisExtraPar", axis, <<name>>, "ok", None, <<>>)
    /\ UNCHANGED <<npts_average, npts, latency_time, state, status, ctrl, devVars, hist>>

\* StateAll: the branch of val_start = 1 compares self.state with
\* State.Moving and assigns nothing to it; the comparison reads self.state.
FemtoStateAll ==
    /\ IF devState = 0
       THEN /\ state' = "On"
            /\ status' = <<"Detector ready">>
            /\ last' = Result("StateAll", NoAxis, <<devState>>, "ok", None, <<>>)
       ELSE IF devState = 1
       THEN IF state = UnsetAttr
            THEN /\ UNCHANGED <<state, status>>
                 /\ last' = Result("StateAll", NoAxis, <<devState>>,
                                   "AttributeError", None, <<>>)
            ELSE /\ UNCHANGED state
                 /\ status' = <<"Detector acquiring">>
                 /\ last' = Result("StateAll", NoAxis, <<devState>>, "ok", None, <<>>)
       ELSE /\ state' = "Fault"
            /\ status' = <<"Detector in unexpected state">>
            /\ last' = Result("StateAll", NoAxis, <<devState>>, "ok", None, <<>>)
    /\ UNCHANGED <<axes, npts_average, npts, latency_time, ctrl, devVars, hist>>

FemtoStateOne(axis) ==
    IF state = UnsetAttr THEN Raised("AttributeError") ELSE Returned(<<state, status>>)

FemtoLoadOne(axis, value) ==
    /\ IF IntTrunc(value, ExpDen) > FEMTO_MAXLENGTH
       THEN /\ UNCHANGED npts
            /\ last' = Result("LoadOne", NoAxis, <<value>>, "ValueError",
                              MaxLengthError, <<>>)
       ELSE /\ npts' = IntTrunc(value, ExpDen)
            /\ last' = Result("LoadOne", NoAxis, <<value>>, "ok", value, <<>>)
    /\ UNCHANGED <<axes, npts_average, latency_time, state, status, ctrl, devVars, hist>>

\* LoadAll: the reset attribute is written 1 and 0 (the device empties its
\* arrays), then the target index.
FemtoLoadAll ==
    /\ devSize' = npts
    /\ devIndex' = 0
    /\ devData' = [s \in Symbols |-> ZeroArray(Len(devData[s]))]
    /\ UNCHANGED devState
    /\ last' = Result("LoadAll", NoAxis, <<>>, "ok", None,
                      <<<<"attr_reset", 1>>, <<"attr_reset", 0>>, <<"attr_npts", npts>>>>)
    /\ UNCHANGED <<ctrlVars, hist>>

FemtoStartAll ==
    /\ devState' = 1
    /\ UNCHANGED <<devSize, devIndex, devData>>
    /\ last' = Result("StartAll", NoAxis, <<>>, "ok", None,
                      <<<<"attr_start", 0>>, <<"attr_start", 1>>>>)
    /\ UNCHANGED <<ctrlVars, hist>>

FemtoAbortOne(axis) ==
    /\ devState' = 0
    /\ UNCHANGED <<devSize, devIndex, devData>>
    /\ last' = Result("AbortOne", axis, <<>>, "ok", None, <<<<"attr_start", 0>>>>)
    /\ UNCHANGED <<ctrlVars, hist>>

FemtoStopOne(axis) ==
    /\ devState' = 0
    /\ UNCHANGED <<devSize, devIndex, devData>>
    /\ last' = Result("StopOne", axis, <<>>, "ok", None, <<<<"attr_start", 0>>>>)
    /\ UNCHANGED <<ctrlVars, hist>>

\* ReadOne: the whole array is read, its entries other than 0 are counted, a
\* count other than _npts is logged as a warning, data[:self._npts] returned.
\* The call records the count and whether the warning was logged.
FemtoReadOne(axis) ==
    /\ IF axis \notin DOMAIN axes \/ "attr_array" \notin DOMAIN axes[axis]
       THEN last' = Result("ReadOne", axis, <<>>, "KeyError", None, <<>>)
       ELSE LET data == devData[axes[axis]["attr_array"]]
                num_valid == NumValid(data)
            IN  last' = Result("ReadOne", axis, <<num_valid, num_valid # npts>>,
                               "ok", PySlice(data, 0, npts), <<>>)
    /\ UNCHANGED <<ctrlVars, devVars, hist>>

\* The device writes the next entry of every array, up to the target index.
FemtoDeviceAdvance ==
    /\ devState = 1
    /\ devIndex < devSize
    /\ \A s \in Symbols : devIndex < Len(devData[s])
    /\ \E v \in Samples :
           devData' = [s \in Symbols |->
                          [devData[s] EXCEPT ![devIndex + 1] = SymbolSample(s, v)]]
    /\ devIndex' = devIndex + 1
    /\ devState' = IF devIndex + 1 = devSize THEN 0 ELSE devState
    /\ UNCHANGED <<ctrlVars, devSize, last, hist>>

\* One channel is enough for a trace: the handlers of this controller share
\* nothing between channels but _npts.
FemtoNext ==
    \/ FemtoAddDevice(TimerAxis)
    \/ \E value \in Symbols : FemtoSetAxisExtraPar(TimerAxis, "attr_array", value)
    \/ \E value \in FemtoValues : FemtoLoadOne(TimerAxis, value)
    \/ FemtoLoadAll
    \/ FemtoStartAll
    \/ FemtoAbortOne(TimerAxis)
    \/ FemtoStopOne(TimerAxis)
    \/ FemtoStateAll
    \/ FemtoReadOne(TimerAxis)
    \/ FemtoDeviceAdvance
    \/ \E code \in RawCodes : DeviceState(code)

SpecFemto == FemtoInit /\ [][FemtoNext]_vars

\* ------------- BeckhoffADCCTController.py, class BeckhoffADCOneDController
\* The trace controller on the ADS buffer ("Ads1D").  It has _axes, _npts,
\* state and status, and no _npts_average and no _latency_time.  Its
\* constructor reads _npts from the buffer size of the device, a size that
\* the device holds.  Its AddDevice, DeleteDevice, SetAxisExtraPar, AbortOne,
\* StopOne and StopAll have the text of those of BeckhoffADCCtrlMixin, which
\* stand for them here.
AdsValues == Exposures \cup {ExpDen * MAXLENGTH, ExpDen * MAXLENGTH + ExpDen}

AdsInit ==
    /\ ctrl = "Ads1D"
    /\ axes = EmptyDict
    /\ npts_average = Unset
    /\ \E size \in 0..MaxIndex : devSize = size /\ npts = size
    /\ latency_time = Unset
    /\ state = UnsetAttr
    /\ status = <<UnsetAttr>>
    /\ devIndex = 0
    /\ devState = 1
    /\ devData = ClearedData
    /\ last = Result("__init__", NoAxis, <<>>, "ok", None, <<>>)
    /\ hist = [a \in AxisIds |-> HistNone]

AdsStateAll ==
    /\ IF devState \in {1, 3}
       THEN state' = "On" /\ status' = <<"Detector ready">>
       ELSE IF devState = 2
       THEN state' = "Moving" /\ status' = <<"Detector acquiring">>
       ELSE state' = "Fault" /\ status' = <<"Unxepected state: ", devState>>
    /\ last' = Result("StateAll", NoAxis, <<devState>>, "ok", None, <<>>)
    /\ UNCHANGED <<axes, npts_average, npts, latency_time, ctrl, devVars, hist>>

AdsLoadOne(axis, value) ==
    /\ IF IntTrunc(value, ExpDen) > MAXLENGTH
       THEN /\ UNCHANGED npts
            /\ last' = Result("LoadOne", NoAxis, <<value>>, "ValueError",
                              MaxLengthError, <<>>)
       ELSE /\ npts' = IntTrunc(value, ExpDen)
            /\ last' = Result("LoadOne", NoAxis, <<value>>, "ok", value, <<>>)
    /\ UNCHANGED <<axes, npts_average, latency_time, state, status, ctrl, devVars, hist>>

AdsLoadAll ==
    /\ DevPrepare(npts)
    /\ last' = Result("LoadAll", NoAxis, <<>>, "ok", None,
                      <<<<"ADCBufferSize", npts>>, <<"ADCPrepare", TRUE>>>>)
    /\ UNCHANGED <<ctrlVars, hist>>

AdsStartAll ==
    /\ DevStart
    /\ last' = Result("StartAll", NoAxis, <<>>, "ok", None, <<<<"ADCStart", TRUE>>>>)
    /\ UNCHANGED <<ctrlVars, hist>>

\* ReadOne: the first _npts entries of the array, in whatever state.
AdsReadOne(axis) ==
    /\ IF axis \notin DOMAIN axes \/ "ads_symbol_array" \notin DOMAIN axes[axis]
       THEN last' = Result("ReadOne", axis, <<>>, "KeyError", None, <<>>)
       ELSE last' = Result("ReadOne", axis, <<npts>>, "ok",
                           ReadFloatArray(npts, axes[axis]["ads_symbol_array"]), <<>>)
    /\ UNCHANGED <<ctrlVars, devVars, hist>>

AdsNext ==
    \/ ChannelStep
    \/ \E value \in AdsValues : AdsLoadOne(TimerAxis, value)
    \/ AdsLoadAll
    \/ AdsStartAll
    \/ StopStep
    \/ AdsStateAll
    \/ AdsReadOne(TimerAxis)
    \/ DeviceAdvance

SpecAds == AdsInit /\ [][AdsNext]_vars

\* ------------------------------------------------- the four controllers
\* Configuration and reads of the buffered counter, with every exposure and
\* every number of repetitions; the reads find the buffer of the device empty.
ConfigReadNext ==
    \/ AddDevice(TimerAxis)
    \/ \E value \in Symbols : SetAxisExtraPar(TimerAxis, "ADS_Symbol_Array", value)
    \/ ConfigStep
    \/ StartOne(TimerAxis)
    \/ StartAll
    \/ ReadOne(TimerAxis)

\* Whichever of the four classes was constructed, with its handlers.
AnyInit == Init \/ OneDInit \/ AdsInit \/ FemtoInit

AnyNext ==
    \/ ctrl = "CT" /\ ConfigReadNext
    \/ ctrl = "OneD" /\ OneDNext
    \/ ctrl = "Ads1D" /\ AdsNext
    \/ ctrl = "Femto1D" /\ FemtoNext

SpecAny == AnyInit /\ [][AnyNext]_vars

\* ================================================================ claims
\* What the claims speak of, in the names of the code.
HasProgress(a) == a \in DOMAIN axes /\ "samples_returned" \in DOMAIN axes[a]
HasSource(a) == a \in DOMAIN axes /\ "ads_symbol_array" \in DOMAIN axes[a]
Consumed(a) == axes[a]["samples_returned"]
SourceOf(a) == axes[a]["ads_symbol_array"]
ReadOk(a) == last.op = "ReadOne" /\ last.axis = a /\ last.outcome = "ok"

\* The single-shot averaging of a raw buffer: window k is the mean of the
\* samples (k-1)*w+1 .. k*w, for every window that is complete.
SingleShot(raw, w) ==
    [k \in 1..(Len(raw) \div w) |-> <<Sum(SubSeq(raw, (k - 1) * w + 1, k * w)), w>>]

\* C1: over an acquisition of a channel (StartOne, StartAll, then reads
\* interleaved with the device filling its buffer), the concatenation of what
\* ReadOne returned is the single-shot averaging of the raw buffer up to the
\* index of the last read: every complete window once, in order.
C1_ExactlyOnceInOrder ==
    \A a \in AxisIds :
        (hist[a].phase = "running" /\ HasSource(a) /\ npts_average # Unset) =>
            LET raw == devData[SourceOf(a)]
            IN  /\ Consumed(a) * npts_average <= Len(raw)
                /\ hist[a].got = SingleShot(SubSeq(raw, 1, Consumed(a) * npts_average),
                                            npts_average)
                /\ ReadOk(a) =>
                       /\ last.args[1] <= Len(raw)
                       /\ hist[a].got = SingleShot(SubSeq(raw, 1, last.args[1]),
                                                   npts_average)

\* C1 witness: an acquisition of MaxReps exposures read to its end, the last
\* read returning the last window and earlier reads the windows before it.
C1_Witness ==
    \E a \in AxisIds :
        /\ hist[a].phase = "running"
        /\ ReadOk(a)
        /\ npts_average = 1
        /\ devIndex = devSize /\ devSize = npts /\ npts = MaxReps
        /\ last.args[1] = devIndex
        /\ Len(last.value) = 1
        /\ Len(hist[a].got) = MaxReps

\* C2 as claimed: ReadOne returns idx div window_size - consumed_windows values.
C2_CountAsClaimed ==
    [][\A a \in AxisIds :
          (last'.op = "ReadOne" /\ ReadOne(a) /\ last'.outcome = "ok") =>
              Len(last'.value) = (devIndex \div npts_average) - Consumed(a)]_vars

\* C2 amended: ReadOne returns max(0, idx div window_size - consumed_windows)
\* values, and value k is the mean of the complete window consumed_windows + k
\* of the channel's array: no sample of a partial window is in any value.
C2_CountAndWindows ==
    [][\A a \in AxisIds :
          (last'.op = "ReadOne" /\ ReadOne(a) /\ last'.outcome = "ok") =>
              LET w == npts_average
                  n == Max(0, (devIndex \div w) - Consumed(a))
                  raw == devData[SourceOf(a)]
              IN  /\ Len(last'.value) = n
                  /\ \A k \in 1..n :
                         last'.value[k] =
                             <<Sum(SubSeq(raw, (Consumed(a) + k - 1) * w + 1,
                                          (Consumed(a) + k) * w)), w>>]_vars

\* C2 witness: a read at an index inside a window returned a value.
C2_Witness ==
    \E a \in AxisIds :
        /\ ReadOk(a)
        /\ npts_average = 2
        /\ last.args[1] = 3
        /\ Len(last.value) = 1

\* C3 as claimed: across the reads of a channel within an acquisition (no
\* other call between one ReadOne and the next, the device alone acting)
\* samples_returned never decreases, whatever index the device reports.
C3_ConsumedNeverLowered ==
    [][\A a \in AxisIds :
          (/\ ReadOk(a)
           /\ last'.op = "ReadOne"
           /\ ReadOne(a)) =>
              axes'[a]["samples_returned"] >= Consumed(a)]_vars

\* C4 as claimed: a second ReadOne of a channel, made with no call in between
\* and at an index no higher than the one the first read saw, returns the
\* empty list and leaves samples_returned as it was.
C4_StaleReadIsNoOp ==
    [][\A a \in AxisIds :
          (/\ ReadOk(a)
           /\ devIndex <= last.args[1]
           /\ last'.op = "ReadOne"
           /\ ReadOne(a)) =>
              /\ last'.outcome = "ok"
              /\ last'.value = <<>>
              /\ axes'[a] = axes[a]]_vars

\* C4, the part the code keeps: at the very index of the first read the
\* second read returns the empty list and changes nothing of the channel.
C4_SameIndexReadIsNoOp ==
    [][\A a \in AxisIds :
          (/\ ReadOk(a)
           /\ devIndex = last.args[1]
           /\ last'.op = "ReadOne"
           /\ ReadOne(a)) =>
              /\ last'.outcome = "ok"
              /\ last'.value = <<>>
              /\ axes'[a] = axes[a]]_vars

C6_RoundedTotal ==
    (last.op = "LoadOne" /\ last.outcome = "ok") =>
        npts = Round(last.args[1], ExpDen) * last.args[2]

\* C7: LoadOne with an exposure below 1/acq_rate raises the ValueError of the
\* minimum exposure, writes nothing to the Gateway and leaves the
\* configuration, the channels, the reported state and the device unchanged.
C7_ShortExposureRejected ==
    [][\A e \in Exposures, r \in RepetitionValues :
          (/\ e < SamplePeriod
           /\ last'.op = "LoadOne"
           /\ LoadOne(TimerAxis, e, r)) =>
              /\ last'.outcome = "ValueError"
              /\ last'.value = MinExposureError
              /\ last'.writes = <<>>
              /\ UNCHANGED <<ctrlVars, devVars>>]_vars

\* C7 witness: the exposure was rejected on a controller that holds an
\* earlier configuration.
C7_Witness ==
    /\ last.op = "LoadOne"
    /\ last.value = MinExposureError
    /\ last.args[1] < SamplePeriod
    /\ npts_average # Unset
    /\ npts # Unset
    /\ latency_time # SamplePeriod

\* C8 as claimed: on a configured controller, LoadOne that raises for more
\* than MAXLENGTH points leaves _npts_average, _npts and _latency_time as they
\* were.
C8_OverflowLeavesConfiguration ==
    [][\A e \in Exposures, r \in RepetitionValues :
          (/\ npts # Unset
           /\ last'.op = "LoadOne"
           /\ LoadOne(TimerAxis, e, r)
           /\ last'.value = MaxLengthError) =>
              UNCHANGED <<npts_average, npts, latency_time>>]_vars

\* C9 as claimed: LoadOne while the controller is acquiring (the last poll
\* reported Moving and the device is in state 2) raises and leaves the
\* configuration as it was.
C9_NoReconfigureWhileAcquiring ==
    [][\A e \in Exposures, r \in RepetitionValues :
          (/\ state = "Moving"
           /\ devState = 2
           /\ last'.op = "LoadOne"
           /\ LoadOne(TimerAxis, e, r)) =>
              /\ last'.outcome # "ok"
              /\ UNCHANGED <<npts_average, npts, latency_time>>]_vars

\* C10: StateAll never raises and maps the state code it reads: 1 and 3 to
\* On, 2 to Moving, any other code to Fault with a status that ends in the
\* code; StateOne then returns that state and status, whatever the state
\* before the poll was (Fault included).
C10_PollMapping ==
    [][(last'.op = "StateAll" /\ StateAll) =>
          /\ last'.outcome = "ok"
          /\ \A a \in AxisIds : StateOne(a)' = Returned(<<state', status'>>)
          /\ devState \in {1, 3} => (state' = "On" /\ status' = <<"Detector ready">>)
          /\ devState = 2 => (state' = "Moving" /\ status' = <<"Detector acquiring">>)
          /\ devState \notin {1, 2, 3} =>
                 /\ state' = "Fault"
                 /\ status'[Len(status')] = devState]_vars

\* C10 witness: a poll that read the unmapped code MaxRawCode reported Fault.
C10_Witness ==
    /\ last.op = "StateAll"
    /\ last.args[1] = MaxRawCode
    /\ MaxRawCode \notin {1, 2, 3}
    /\ state = "Fault"
    /\ status = <<"Unxepected state: ", MaxRawCode>>

\* The state that a status text names.
StateNamedBy(text) ==
    IF text = <<"Detector ready">> THEN "On"
    ELSE IF text = <<"Detector acquiring">> THEN "Moving"
    ELSE "Fault"

\* C11 as claimed, for the femto trace controller: the state that StateAll
\* records is a function of the code it read alone, and the status it sets
\* names that state; as the status is set from the code in every branch, the
\* state after a StateAll that returned is the one its status names.
C11_PollFunctionOfCode ==
    [][(last'.op = "StateAll" /\ FemtoStateAll /\ last'.outcome = "ok") =>
          /\ state' = StateNamedBy(status')
          /\ FemtoStateOne(TimerAxis)' = Returned(<<state', status'>>)]_vars

\* C17 as claimed, for the femto trace controller: ReadOne of a channel that
\* has its array named never raises, logs the warning exactly when the count
\* of entries other than 0 differs from _npts, and returns _npts entries,
\* whatever the array holds and whatever _npts is.
C17_SnapshotLength ==
    [][\A a \in AxisIds :
          (/\ a \in DOMAIN axes
           /\ "attr_array" \in DOMAIN axes[a]
           /\ last'.op = "ReadOne"
           /\ FemtoReadOne(a)) =>
              /\ last'.outcome = "ok"
              /\ last'.args[2] = (NumValid(devData[axes[a]["attr_array"]]) # npts)
              /\ Len(last'.value) = npts]_vars

\* C17, the part the code keeps: the read never raises, the mismatch is a
\* warning, and the entries returned are the first min(_npts, length of the
\* array) entries of the array.
C17_SnapshotTruncated ==
    [][\A a \in AxisIds :
          (/\ a \in DOMAIN axes
           /\ "attr_array" \in DOMAIN axes[a]
           /\ last'.op = "ReadOne"
           /\ FemtoReadOne(a)) =>
              LET data == devData[axes[a]["attr_array"]]
              IN  /\ last'.outcome = "ok"
                  /\ last'.args[2] = (NumValid(data) # npts)
                  /\ Len(last'.value) = Min(npts, Len(data))
                  /\ \A k \in 1..Len(last'.value) : last'.value[k] = data[k]]_vars

\* C12: StopOne and AbortOne can be called in every state, return without an
\* exception, write the stop signal and nothing else to the Gateway, and
\* leave the reported state and every channel as they were.  A stop leaves
\* the device in a condition (not acquiring) in which a stop changes nothing
\* of the Gateway: the second of two stops leaves it as the first did.
\* StopAll changes nothing.
C12_StopIdempotent ==
    /\ [](\A a \in AxisIds : ENABLED StopOne(a) /\ ENABLED AbortOne(a))
    /\ [][/\ \A a \in AxisIds :
                (/\ last'.op \in {"StopOne", "AbortOne"}
                 /\ StopOne(a) \/ AbortOne(a)) =>
                    /\ last'.outcome = "ok"
                    /\ last'.writes = <<<<"ADCStop", TRUE>>>>
                    /\ UNCHANGED ctrlVars
                    /\ devState' # 2
                    /\ devState # 2 => UNCHANGED devVars
          /\ (last'.op = "StopAll" /\ StopAll) =>
                 (last'.outcome = "ok" /\ UNCHANGED <<ctrlVars, devVars>>)]_vars

\* C12 witness: a stop in the middle of an acquisition, the last poll having
\* reported Moving, on a channel that has a source and has returned a window.
C12_Witness ==
    /\ last.op \in {"StopOne", "AbortOne"}
    /\ devState = 3
    /\ state = "Moving"
    /\ HasSource(TimerAxis)
    /\ HasProgress(TimerAxis)
    /\ Consumed(TimerAxis) > 0

\* The handlers of configuration and of the registry.
ConfigOps == {"LoadOne", "LoadAll", "AddDevice", "DeleteDevice", "SetAxisExtraPar"}

\* C13: a LoadOne, LoadAll, AddDevice, DeleteDevice or SetAxisExtraPar that
\* raises (ValueError for the exposure or the number of points, KeyError for
\* a channel that is not registered, AttributeError for a LoadAll before any
\* LoadOne) has written no attribute of the Gateway, and the Gateway is as it
\* was before the call.
C13_FailuresWriteNothing ==
    [][(/\ last'.op \in ConfigOps
        /\ last'.outcome # "ok"
        /\ \/ last'.op = "LoadAll" /\ LoadAll
           \/ /\ last'.op = "LoadOne"
              /\ LoadOne(TimerAxis, last'.args[1], last'.args[2])
           \/ last'.op = "AddDevice" /\ \E a \in AxisIds : AddDevice(a)
           \/ last'.op = "DeleteDevice" /\ \E a \in AxisIds : DeleteDevice(a)
           \/ /\ last'.op = "SetAxisExtraPar"
              /\ \E a \in AxisIds, name \in ParNames, value \in Symbols :
                     SetAxisExtraPar(a, name, value)) =>
          /\ last'.writes = <<>>
          /\ UNCHANGED devVars]_vars

\* C13 witness: LoadOne raised for too many points in the middle of an
\* acquisition that an earlier LoadOne and LoadAll had configured.
C13_Witness ==
    /\ last.op = "LoadOne"
    /\ last.outcome = "ValueError"
    /\ last.value = MaxLengthError
    /\ devSize = 1
    /\ devState = 2

\* C14: DeleteDevice, SetAxisExtraPar of ads_symbol_array and GetAxisExtraPar
\* of ads_symbol_array raise KeyError on an axis that is not registered and
\* leave _axes as it was.  The registered axes change by AddDevice, which
\* adds its axis, and by a DeleteDevice that returns, which removes its axis,
\* and by no other call: they are the axes added and not removed since.
C14_RegistryExact ==
    /\ [](\A a \in AxisIds :
              a \notin DOMAIN axes =>
                  GetAxisExtraPar(a, "ADS_Symbol_Array") = Raised("KeyError"))
    /\ [][/\ \A a \in AxisIds :
                (last'.op = "AddDevice" /\ AddDevice(a)) =>
                    (last'.outcome = "ok" /\ DOMAIN axes' = DOMAIN axes \cup {a})
          /\ \A a \in AxisIds :
                (last'.op = "DeleteDevice" /\ DeleteDevice(a)) =>
                    IF a \in DOMAIN axes
                    THEN last'.outcome = "ok" /\ DOMAIN axes' = DOMAIN axes \ {a}
                    ELSE last'.outcome = "KeyError" /\ axes' = axes
          /\ \A a \in AxisIds, value \in Symbols :
                (/\ a \notin DOMAIN axes
                 /\ last'.op = "SetAxisExtraPar"
                 /\ SetAxisExtraPar(a, "ADS_Symbol_Array", value)) =>
                    (last'.outcome = "KeyError" /\ axes' = axes)
          /\ last'.op \notin {"AddDevice", "DeleteDevice"} =>
                 DOMAIN axes' = DOMAIN axes]_vars

\* C14 witness: SetAxisExtraPar has raised on an axis that is not registered
\* while the other axis is.
C14_Witness ==
    /\ last.op = "SetAxisExtraPar"
    /\ last.outcome = "KeyError"
    /\ DOMAIN axes = AxisIds \ {last.axis}

\* C15 as claimed: DeleteDevice of a registered channel while an acquisition
\* is in progress (the device is in state 2 and the last poll reported
\* Moving) raises and leaves the channel registered, with its
\* ads_symbol_array and samples_returned.
C15_NoRemovalWhileAcquiring ==
    [][\A a \in AxisIds :
          (/\ state = "Moving"
           /\ devState = 2
           /\ a \in DOMAIN axes
           /\ last'.op = "DeleteDevice"
           /\ DeleteDevice(a)) =>
              /\ last'.outcome # "ok"
              /\ axes' = axes]_vars

\* C16: in an acquisition of a channel that LoadOne and LoadAll configured
\* (the buffer size of the device is _npts = _npts_average * repetitions) and
\* whose index only advances, the number of values that ReadOne has returned
\* is at most repetitions, and after a ReadOne at index _npts it is exactly
\* repetitions.
C16_Completion ==
    \A a \in AxisIds :
        (/\ hist[a].phase = "running"
         /\ HasSource(a)
         /\ npts_average # Unset
         /\ devSize = npts
         /\ npts % npts_average = 0) =>
            LET repetitions == npts \div npts_average
            IN  /\ Len(hist[a].got) <= repetitions
                /\ (ReadOk(a) /\ last.args[1] = npts) =>
                       Len(hist[a].got) = repetitions

\* C16 witness: an acquisition of MaxReps exposures whose single read, made
\* at the end, returned them all.
C16_Witness ==
    \E a \in AxisIds :
        /\ hist[a].phase = "running"
        /\ ReadOk(a)
        /\ npts_average = 1
        /\ devSize = npts /\ npts = MaxReps
        /\ last.args[1] = npts
        /\ Len(last.value) = MaxReps
        /\ Len(hist[a].got) = MaxReps

\* C19: ReadOne of a channel changes the samples_returned of that channel
\* and nothing else of the controller or of the Gateway: the other channels,
\* the channel's ads_symbol_array and the configuration are as before.  With
\* two channels of different sources read in any interleaving, each has
\* received the windows of its own source, up to its own count.
C19_ChannelsIndependent ==
    /\ [][\A a \in AxisIds :
              (last'.op = "ReadOne" /\ ReadOne(a)) =>
                  /\ DOMAIN axes' = DOMAIN axes
                  /\ \A b \in DOMAIN axes \ {a} : axes'[b] = axes[b]
                  /\ a \in DOMAIN axes =>
                         \A k \in DOMAIN axes[a] \ {"samples_returned"} :
                             k \in DOMAIN axes'[a] /\ axes'[a][k] = axes[a][k]
                  /\ UNCHANGED <<npts_average, npts, latency_time, state, status,
                                 devVars>>]_vars
    /\ [](\A a, b \in AxisIds :
              (/\ a # b
               /\ hist[a].phase = "running" /\ hist[b].phase = "running"
               /\ HasSource(a) /\ HasSource(b)
               /\ npts_average # Unset) =>
                  /\ hist[a].got =
                         SingleShot(SubSeq(devData[SourceOf(a)], 1,
                                           Consumed(a) * npts_average), npts_average)
                  /\ hist[b].got =
                         SingleShot(SubSeq(devData[SourceOf(b)], 1,
                                           Consumed(b) * npts_average), npts_average))

\* C19 witness: two channels of different sources in one acquisition, one of
\* them read twice and the other once.
C19_Witness ==
    \E a, b \in AxisIds :
        /\ hist[a].phase = "running" /\ hist[b].phase = "running"
        /\ HasSource(a) /\ HasSource(b)
        /\ SourceOf(a) # SourceOf(b)
        /\ Consumed(a) = 2 /\ Consumed(b) = 1
        /\ Len(hist[a].got) = 2 /\ Len(hist[b].got) = 1
        /\ ReadOk(a)
        /\ Len(last.value) = 1

\* C20: ReadOne of the software-triggered trace controller reads the Gateway
\* (the buffer index, then the array up to it) and returns the trace only
\* when the state that the last StateAll recorded is On; when it is Moving or
\* Fault the call reads nothing of the Gateway and returns None.  The call
\* changes nothing of the controller or of the Gateway.
C20_StateGatedRead ==
    [][/\ \A a \in AxisIds :
          (last'.op = "ReadOne" /\ OneDReadOne(a)) =>
              /\ last'.args # <<>> =>
                     /\ state = "On"
                     /\ last'.outcome = "ok"
                     /\ last'.args = <<"ADC1BufferIndex", "read_float_array">>
                     /\ last'.value = ReadFloatArray(devIndex, SourceOf(a))
              /\ last'.args = <<>> => last'.value = None
              /\ (state \in {"Moving", "Fault"} /\ HasSource(a)) =>
                     /\ last'.outcome = "ok"
                     /\ last'.value = None
                     /\ last'.args = <<>>
              /\ UNCHANGED <<ctrlVars, devVars>>
       /\ last'.op # "StateAll" => state' = state]_vars

\* C20 witness: a read that returned None while the buffer of the device
\* holds a sample, the last poll having recorded Moving.
C20_Witness ==
    /\ ctrl = "OneD"
    /\ last.op = "ReadOne"
    /\ last.outcome = "ok"
    /\ last.args = <<>>
    /\ last.value = None
    /\ state = "Moving"
    /\ devIndex > 0

\* The attributes of the Gateway that hold the size of the buffer.
SizeAttributes == {"ADCBufferSize", "attr_npts"}

====
